---- MODULE Spec2Model ----
(***************************************************************************)
(* get_gh_release (main.go): one run of main.  getToken, the platform      *)
(* gate, findReleaseCandidates (repository listing with pagination, the    *)
(* per-repository release lookup and asset match), the switch on the       *)
(* number of candidates, and downloadAndPrepare (open stream, create file, *)
(* copy, chmod).  Strings the program lowercases or searches are modelled  *)
(* as sequences of one-character strings; the GitHub API and the file      *)
(* system are the environment, and each response is drawn when the call    *)
(* is made.                                                                *)
(***************************************************************************)
EXTENDS Integers, Sequences, FiniteSets, TLC

(* ------------------------------ bounds -------------------------------- *)

\* repositories a listing may hold over all its pages
MaxRepos == 3
\* assets a release may carry
MaxAssets == 2
\* releases on the first page of a release listing
MaxReleases == 2

(* ------------------------------ strings ------------------------------- *)

SeqsUpTo(S, n) == UNION {[1..k -> S] : k \in 0..n}
\* the sequences of at most n elements of S, no element twice
DistinctSeqsUpTo(S, n) ==
    {q \in SeqsUpTo(S, n) : \A i, j \in 1..Len(q) : q[i] = q[j] => i = j}

\* strings.ToLower on one character (ASCII letters)
LowerChar(ch) ==
    CASE ch = "A" -> "a" [] ch = "B" -> "b" [] ch = "C" -> "c" [] ch = "D" -> "d"
      [] ch = "E" -> "e" [] ch = "F" -> "f" [] ch = "G" -> "g" [] ch = "H" -> "h"
      [] ch = "I" -> "i" [] ch = "J" -> "j" [] ch = "K" -> "k" [] ch = "L" -> "l"
      [] ch = "M" -> "m" [] ch = "N" -> "n" [] ch = "O" -> "o" [] ch = "P" -> "p"
      [] ch = "Q" -> "q" [] ch = "R" -> "r" [] ch = "S" -> "s" [] ch = "T" -> "t"
      [] ch = "U" -> "u" [] ch = "V" -> "v" [] ch = "W" -> "w" [] ch = "X" -> "x"
      [] ch = "Y" -> "y" [] ch = "Z" -> "z" [] OTHER -> ch

\* strings.ToLower
ToLower(s) == [i \in 1..Len(s) |-> LowerChar(s[i])]

\* strings.Contains(s, sub): the empty string is contained in every string
Contains(s, sub) ==
    \E i \in 0..(Len(s) - Len(sub)) : SubSeq(s, i + 1, i + Len(sub)) = sub

linux  == <<"l", "i", "n", "u", "x">>
darwin == <<"d", "a", "r", "w", "i", "n">>
amd64  == <<"a", "m", "d", "6", "4">>
arm64  == <<"a", "r", "m", "6", "4">>
i386   == <<"3", "8", "6">>

(* ---------------------------- environment ----------------------------- *)

\* staticToken: the compiled-in fallback token
staticToken == ""

\* values of the -token flag and of GH_TOKEN
TokenFlags == {"", "flagtok"}
EnvTokens  == {"", "envtok"}

HostOS   == {linux, darwin}
HostArch == {amd64, arm64, i386}

\* flag.Args(): [pattern [version]]
ArgLists ==
    { <<>>,
      << <<"T", "O", "O", "L", "-">> >>,
      << <<"T", "O", "O", "L", "-">>, <<"V", "1">> >>,
      << <<>>, <<"V", "1">> >> }

\* repositories the API may list
RepoA == [name |-> <<"T", "o", "o", "l", "-", "X">>, owner |-> <<"m", "e">>]
RepoB == [name |-> <<"o", "t", "h", "e", "r">>, owner |-> <<"o", "r", "g">>]

\* one page of a repository listing
RepoPages == { <<>>, <<RepoA>>, <<RepoB, RepoA>> }

\* release assets: "Linux-AMD64", "darwin-arm64-amd64", "linux.amd64.arm64"
AssetUpper == [name |-> <<"L", "i", "n", "u", "x", "-", "A", "M", "D", "6", "4">>,
               id |-> 11, url |-> "u11"]
AssetOther == [name |-> darwin \o <<"-">> \o arm64 \o <<"-">> \o amd64,
               id |-> 12, url |-> "u12"]
AssetBoth  == [name |-> linux \o <<".">> \o amd64 \o <<".">> \o arm64,
               id |-> 13, url |-> "u13"]
Assets == {AssetUpper, AssetOther, AssetBoth}
\* a release's assets have distinct names
AssetLists == DistinctSeqsUpTo(Assets, MaxAssets)

TagV12 == <<"V", "1", ".", "2">>
TagV10 == <<"v", "1", ".", "0">>
TagV20 == <<"v", "2", ".", "0">>

NilRelease == [tag |-> <<>>, assets |-> <<>>, nil |-> TRUE]
Release(t, a) == [tag |-> t, assets |-> a, nil |-> FALSE]

\* GetLatestRelease: an error (404 when the repository has no release) or a release
LatestReleases == {Release(t, a) : t \in {TagV12}, a \in AssetLists}

\* the releases a release listing may hold, and the listing as the server
\* pages it: the first page and the releases of the pages after it
ListedReleases ==
    { Release(TagV12, <<AssetUpper, AssetBoth>>),
      Release(TagV10, <<AssetBoth>>),
      Release(TagV20, <<AssetOther, AssetUpper>>) }
ReleaseListings ==
    { [first |-> f, rest |-> r] :
        f \in DistinctSeqsUpTo(ListedReleases, MaxReleases),
        r \in { <<>>, <<Release(TagV10, <<AssetBoth>>)>> } }

\* the content streams an asset download may deliver
Streams == { <<>>, <<"b1">>, <<"b1", "b2">> }

(* ---------------------------- file system ----------------------------- *)

Perm0755 == {"ur", "uw", "ux", "gr", "gx", "or", "ox"}
Perm0666 == {"ur", "uw", "gr", "gw", "or", "ow"}
Perm0644 == {"ur", "uw", "gr", "or"}
ExecBits == {"ux", "gx", "ox"}
\* process umasks: 022 and 077
Umasks == { {"gw", "ow"}, {"gr", "gw", "gx", "or", "ow", "ox"} }

NoFile == [exists |-> FALSE, content |-> <<>>, mode |-> {}]
File(cont, m) == [exists |-> TRUE, content |-> cont, mode |-> m]
FileNames == {a.name : a \in Assets}
OldContent == <<"old">>
EmptyDir == [n \in FileNames |-> NoFile]
\* the working directory before the run: empty, or holding a file with the
\* name of an asset, executable or not
InitialDirs ==
    {EmptyDir} \cup
    { [EmptyDir EXCEPT ![AssetBoth.name] = File(OldContent, m)] : m \in {Perm0755, Perm0644} }

(* ------------------------------- state -------------------------------- *)

VARIABLES
    tokenFlag,       \* -token flag value
    envToken,        \* GH_TOKEN
    publicFlag,      \* -public flag
    args,            \* flag.Args()
    GOOS, GOARCH,    \* runtime.GOOS, runtime.GOARCH
    fs,              \* the working directory: file name -> file
    pc,              \* position of main
    token, repoPattern, versionPattern, platformOS, platformArch,
    optsPage,        \* opts.Page of the repository listing loop
    repos,           \* repositories accumulated by the listing loop
    idx,             \* index of the repository the scan loop is at
    candidates,      \* candidates found so far / returned
    err,             \* error returned by findReleaseCandidates
    rc,              \* the open content stream of downloadAndPrepare
    dlErr,           \* error returned by downloadAndPrepare
    stdout, stderr,  \* lines printed
    exitCode,
    \* history of the environment's answers and of the calls made
    apiCalls,        \* API endpoints called
    pagesRequested,  \* opts.Page of every listing request, in order
    served,          \* the responses to the listing requests, in order
    lookup,          \* the answer to the last release lookup
    lookupFailed,    \* some release lookup returned an error
    enumFailed,      \* some repository enumeration call returned an error
    fsOps,           \* file operations performed, in order
    fs0              \* the working directory before the run

vars == << tokenFlag, envToken, publicFlag, args, GOOS, GOARCH, fs, pc, token,
           repoPattern, versionPattern, platformOS, platformArch, optsPage, repos,
           idx, candidates, err, rc, stdout, stderr, exitCode, apiCalls,
           pagesRequested, served, lookup, lookupFailed, enumFailed, fsOps,
           dlErr, fs0 >>

inputs   == << tokenFlag, envToken, publicFlag, args, GOOS, GOARCH, fs0 >>
locals   == << token, repoPattern, versionPattern, platformOS, platformArch >>
listing  == << optsPage, repos, pagesRequested, served >>
scanning == << idx, lookup, lookupFailed >>

NoErr == "nil"
NoStream == [open |-> FALSE, content |-> <<>>]
EmptyListing == [first |-> <<>>, rest |-> <<>>]
NoLookup == [kind |-> "none", err |-> FALSE, latest |-> NilRelease, listing |-> EmptyListing]

Println(msg) == [text |-> msg, arg |-> <<>>]
\* fmt.Printf("%s/%s: %s\n", c.RepoOwner, c.RepoName, c.AssetName)
StatusLine(c) ==
    [text |-> "%s/%s: %s",
     arg |-> c.RepoOwner \o <<"/">> \o c.RepoName \o <<":", " ">> \o c.AssetName]

InitWith(tfs, ets, pubs, argss, oss, archs, dirs) ==
    /\ tokenFlag \in tfs
    /\ envToken \in ets
    /\ publicFlag \in pubs
    /\ args \in argss
    /\ GOOS \in oss
    /\ GOARCH \in archs
    /\ fs \in dirs
    /\ fs0 = fs
    /\ dlErr = NoErr
    /\ pc = "start"
    /\ token = ""
    /\ repoPattern = <<>>
    /\ versionPattern = <<>>
    /\ platformOS = <<>>
    /\ platformArch = <<>>
    /\ optsPage = 0
    /\ repos = <<>>
    /\ idx = 0
    /\ candidates = <<>>
    /\ err = NoErr
    /\ rc = NoStream
    /\ stdout = <<>>
    /\ stderr = <<>>
    /\ exitCode = 0
    /\ apiCalls = {}
    /\ pagesRequested = <<>>
    /\ served = <<>>
    /\ lookup = NoLookup
    /\ lookupFailed = FALSE
    /\ enumFailed = FALSE
    /\ fsOps = <<>>

Init == InitWith(TokenFlags, EnvTokens, BOOLEAN, ArgLists, HostOS, HostArch, InitialDirs)

(* -------------------------------- main -------------------------------- *)

\* getToken with the environment consulted before the flag
getTokenEnvFirst(flag) ==
    IF envToken # "" THEN envToken
    ELSE IF flag # "" THEN flag
    ELSE IF staticToken # "" THEN staticToken
    ELSE ""

getToken(flag) ==
    IF flag # "" THEN flag
    ELSE IF envToken # "" THEN envToken
    ELSE IF staticToken # "" THEN staticToken
    ELSE ""

\* flag parsing and token acquisition
Main_Token ==
    /\ pc = "start"
    /\ repoPattern' = IF Len(args) > 0 THEN ToLower(args[1]) ELSE <<>>
    /\ versionPattern' = IF Len(args) > 1 THEN ToLower(args[2]) ELSE <<>>
    /\ token' = getToken(tokenFlag)
    /\ IF token' = ""
       THEN /\ stdout' = Append(stdout, Println("GitHub token not found. Provide one via -token flag or GH_TOKEN env var."))
            /\ pc' = "done"
       ELSE /\ stdout' = stdout
            /\ pc' = "platform"
    /\ UNCHANGED << inputs, fs, platformOS, platformArch, listing, scanning, candidates,
                    err, rc, dlErr, stderr, exitCode, apiCalls, enumFailed, fsOps >>

\* the platform test with the architecture left unchecked
PlatformSupportedAnyArch(os, arch) == ~(os # linux)

PlatformSupported(os, arch) == ~(os # linux \/ (arch # amd64 /\ arch # arm64))

\* platform verification, then client initialisation and the call of the Finder
Main_Platform ==
    /\ pc = "platform"
    /\ platformArch' = GOARCH
    /\ platformOS' = GOOS
    /\ IF ~PlatformSupported(platformOS', platformArch')
       THEN /\ stderr' = Append(stderr, [text |-> "This program is designed to run only on linux/amd64 or linux/arm64. Detected: %s/%s",
                                         err |-> NoErr])
            /\ exitCode' = 1
            /\ pc' = "done"
       ELSE /\ UNCHANGED << stderr, exitCode >>
            /\ pc' = IF publicFlag THEN "user" ELSE "list"
    /\ UNCHANGED << inputs, fs, token, repoPattern, versionPattern, listing, scanning,
                    candidates, err, rc, dlErr, stdout, apiCalls, enumFailed, fsOps >>

(* ----------------------- findReleaseCandidates ------------------------ *)

\* GetUser with the error of Users.Get not returned
GetUserIgnoreError ==
    /\ pc = "user"
    /\ apiCalls' = apiCalls \cup {"Users.Get"}
    /\ \E failed \in BOOLEAN :
         /\ enumFailed' = (enumFailed \/ failed)
         /\ pc' = "list"
    /\ UNCHANGED << inputs, fs, locals, listing, scanning, candidates, err, rc, dlErr,
                    stdout, stderr, exitCode, fsOps >>

\* if public: client.Users.Get(ctx, "")
GetUser ==
    /\ pc = "user"
    /\ apiCalls' = apiCalls \cup {"Users.Get"}
    /\ \E failed \in BOOLEAN :
         IF failed
         THEN /\ err' = "Users.Get failed"
              /\ enumFailed' = TRUE
              /\ candidates' = <<>>
              /\ pc' = "returned"
         ELSE /\ UNCHANGED << err, enumFailed, candidates >>
              /\ pc' = "list"
    /\ UNCHANGED << inputs, fs, locals, listing, scanning, rc, dlErr, stdout, stderr,
                    exitCode, fsOps >>

\* the page a request with opts.Page = p asks for (0: the first)
PageOf(p) == IF p = 0 THEN 1 ELSE p

\* the answers the API may give to a listing request for page p when the
\* listing has room for that many more repositories: an error, or a page of
\* repositories with the number of the next page (0: no further page).  A
\* page is empty only when the whole listing is, and a page is announced only
\* when a repository is left for it.
ListResponses(p, room) ==
    { [failed |-> TRUE, repos |-> <<>>, NextPage |-> 0] } \cup
    { resp \in [failed : {FALSE}, repos : RepoPages, NextPage : {0, PageOf(p) + 1}] :
        /\ Len(resp.repos) <= room
        /\ resp.repos = <<>> => (p = 0 /\ resp.NextPage = 0)
        /\ resp.NextPage # 0 => Len(resp.repos) < room }

\* the exit test of a loop that reads one page only
LastPageAlways(resp) == TRUE

\* the loop's exit test: resp.NextPage == 0
LastPage(resp) == resp.NextPage = 0

\* one iteration of the listing loop: Repositories.ListByUser (public) or
\* Repositories.List (private)
ListPage ==
    /\ pc = "list"
    /\ apiCalls' = apiCalls \cup {IF publicFlag THEN "Repositories.ListByUser"
                                                ELSE "Repositories.List"}
    /\ pagesRequested' = Append(pagesRequested, optsPage)
    /\ \E resp \in ListResponses(optsPage, MaxRepos - Len(repos)) :
         IF resp.failed
         THEN /\ err' = "listing failed"
              /\ enumFailed' = TRUE
              /\ candidates' = <<>>
              /\ pc' = "returned"
              /\ UNCHANGED << optsPage, repos, served, idx >>
         ELSE /\ repos' = repos \o resp.repos
              /\ served' = Append(served, [repos |-> resp.repos, NextPage |-> resp.NextPage])
              /\ IF LastPage(resp)
                 THEN /\ pc' = "scan"
                      /\ idx' = 1
                      /\ optsPage' = optsPage
                 ELSE /\ pc' = "list"
                      /\ idx' = idx
                      /\ optsPage' = resp.NextPage
              /\ UNCHANGED << err, enumFailed, candidates >>
    /\ UNCHANGED << inputs, fs, locals, lookup, lookupFailed, rc, dlErr, stdout, stderr,
                    exitCode, fsOps >>

\* the loop over releases: the first whose lowercased tag contains the pattern
RECURSIVE FindRelease(_, _)
FindRelease(releases, vp) ==
    IF releases = <<>> THEN NilRelease
    ELSE IF Contains(ToLower(Head(releases).tag), vp) THEN Head(releases)
    ELSE FindRelease(Tail(releases), vp)

\* the test an asset must pass
AssetMatches(asset, os, arch) ==
    /\ Contains(ToLower(asset.name), os)
    /\ Contains(ToLower(asset.name), arch)

\* the loop over release.Assets without the break: the last asset that passes
RECURSIVE FindAssetLast(_, _, _, _)
FindAssetLast(assets, i, os, arch) ==
    IF i > Len(assets) THEN 0
    ELSE LET later == FindAssetLast(assets, i + 1, os, arch)
         IN  IF later # 0 THEN later
             ELSE IF AssetMatches(assets[i], os, arch) THEN i ELSE 0

\* the loop over release.Assets: the index of the first asset that passes, or 0
RECURSIVE FindAsset(_, _, _, _)
FindAsset(assets, i, os, arch) ==
    IF i > Len(assets) THEN 0
    ELSE IF AssetMatches(assets[i], os, arch) THEN i
    ELSE FindAsset(assets, i + 1, os, arch)

Candidate(repo, asset) ==
    [RepoOwner |-> repo.owner, RepoName |-> repo.name, AssetName |-> asset.name,
     DownloadURL |-> asset.url, AssetID |-> asset.id]

\* candidates after the asset loop ran over the release resolved for repo
WithMatch(cands, repo, release, os, arch) ==
    LET k == FindAsset(release.assets, 1, os, arch)
    IN  IF k = 0 THEN cands ELSE Append(cands, Candidate(repo, release.assets[k]))

\* the answers the API may give to a release lookup
LatestResponses ==
    { [kind |-> "latest", err |-> TRUE, latest |-> NilRelease, listing |-> EmptyListing] } \cup
    { [kind |-> "latest", err |-> FALSE, latest |-> r, listing |-> EmptyListing] :
        r \in LatestReleases }
ListReleasesResponses ==
    { [kind |-> "list", err |-> TRUE, latest |-> NilRelease, listing |-> EmptyListing] } \cup
    { [kind |-> "list", err |-> FALSE, latest |-> NilRelease, listing |-> l] :
        l \in ReleaseListings }

\* the release the loop body resolves from the API's answer (nil: continue)
Resolve(resp, vp) ==
    IF resp.err THEN NilRelease
    ELSE IF resp.kind = "latest" THEN resp.latest
    ELSE FindRelease(resp.listing.first, vp)

PassesFilter(repo, pattern) ==
    ~(pattern # <<>> /\ ~Contains(ToLower(repo.name), pattern))

\* one iteration of the loop over repos
ScanRepo ==
    /\ pc = "scan"
    /\ idx <= Len(repos)
    /\ idx' = idx + 1
    /\ LET repo == repos[idx] IN
       IF ~PassesFilter(repo, repoPattern)
       THEN UNCHANGED << lookup, candidates, apiCalls, lookupFailed >>
       ELSE \E resp \in IF versionPattern = <<>> THEN LatestResponses
                                                 ELSE ListReleasesResponses :
            /\ lookup' = resp
            /\ apiCalls' = apiCalls \cup {IF versionPattern = <<>>
                                          THEN "Repositories.GetLatestRelease"
                                          ELSE "Repositories.ListReleases"}
            /\ lookupFailed' = (lookupFailed \/ resp.err)
            /\ LET release == Resolve(resp, versionPattern) IN
               candidates' = IF release.nil THEN candidates
                             ELSE WithMatch(candidates, repo, release, platformOS, platformArch)
    /\ UNCHANGED << inputs, fs, locals, pc, optsPage, repos, pagesRequested, served,
                    err, enumFailed, rc, dlErr, stdout, stderr, exitCode, fsOps >>

\* return candidates, nil
ReturnCandidates ==
    /\ pc = "scan"
    /\ idx > Len(repos)
    /\ pc' = "returned"
    /\ err' = NoErr
    /\ UNCHANGED << inputs, fs, locals, listing, scanning, candidates, enumFailed, rc,
                    dlErr, stdout, stderr, exitCode, apiCalls, fsOps >>

(* ------------------- main: action on the candidates ------------------- *)

\* the lines the default case prints, one per candidate
RECURSIVE PrintAll(_, _)
PrintAll(out, cands) ==
    IF cands = <<>> THEN out
    ELSE PrintAll(Append(out, StatusLine(Head(cands))), Tail(cands))

\* the switch with the download taken for any non-empty list
ActionForFirst(n) == IF n = 0 THEN "none" ELSE "download"

\* switch len(candidates)
ActionFor(n) == IF n = 0 THEN "none" ELSE IF n = 1 THEN "download" ELSE "list"

\* the locals of findReleaseCandidates, and the history of its calls, end with it
ClearFinder ==
    /\ optsPage' = 0
    /\ repos' = <<>>
    /\ idx' = 0
    /\ pagesRequested' = <<>>
    /\ served' = <<>>
    /\ lookup' = NoLookup

\* findReleaseCandidates has returned: the error check and the switch
Main_Switch ==
    /\ pc = "returned"
    /\ ClearFinder
    /\ IF err # NoErr
       THEN /\ stderr' = Append(stderr, [text |-> "Error finding releases: %v", err |-> err])
            /\ exitCode' = 1
            /\ pc' = "done"
            /\ stdout' = stdout
       ELSE /\ UNCHANGED << stderr, exitCode >>
            /\ IF ActionFor(Len(candidates)) = "none"
               THEN /\ stdout' = Append(stdout, Println("No matching release artifacts found for your platform."))
                    /\ pc' = "done"
               ELSE IF ActionFor(Len(candidates)) = "download"
               THEN /\ stdout' = Append(stdout, StatusLine(candidates[1]))
                    /\ pc' = "open"
               ELSE /\ stdout' = PrintAll(stdout, candidates)
                    /\ pc' = "done"
    /\ UNCHANGED << inputs, fs, locals, lookupFailed, candidates, err, enumFailed,
                    rc, dlErr, apiCalls, fsOps >>

(* ------------------------- downloadAndPrepare ------------------------- *)

\* downloadAndPrepare returns the error msg: main prints "failed" and exits 1
DownloadFailed(msg) ==
    /\ dlErr' = msg
    /\ stdout' = Append(stdout, Println("failed"))
    /\ stderr' = Append(stderr, [text |-> "Error downloading and preparing artifact: %v",
                                 err |-> msg])
    /\ exitCode' = 1
    /\ pc' = "done"

\* 1. client.Repositories.DownloadReleaseAsset
DL_Open ==
    /\ pc = "open"
    /\ apiCalls' = apiCalls \cup {"Repositories.DownloadReleaseAsset"}
    /\ \E failed \in BOOLEAN, body \in Streams :
         IF failed
         THEN /\ DownloadFailed("could not download asset content")
              /\ rc' = rc
         ELSE /\ rc' = [open |-> TRUE, content |-> body]
              /\ pc' = "create"
              /\ UNCHANGED << dlErr, stdout, stderr, exitCode >>
    /\ UNCHANGED << inputs, fs, locals, listing, scanning, candidates, err, enumFailed, fsOps >>

\* a Create that removes an existing file first, so that its mode is reset
CreateFresh(dir, name, umask) ==
    [dir EXCEPT ![name] = File(<<>>, Perm0666 \ umask)]

\* os.Create(name): an existing file is truncated and keeps its mode; a new one
\* is created empty with mode 0666 less the umask
Create(dir, name, umask) ==
    [dir EXCEPT ![name] = IF dir[name].exists THEN File(<<>>, dir[name].mode)
                          ELSE File(<<>>, Perm0666 \ umask)]

\* 2. os.Create(c.AssetName)
DL_Create ==
    /\ pc = "create"
    /\ \E failed \in BOOLEAN, umask \in Umasks :
         IF failed
         THEN /\ DownloadFailed("could not create file")
              /\ UNCHANGED << fs, fsOps >>
         ELSE /\ fs' = Create(fs, candidates[1].AssetName, umask)
              /\ fsOps' = Append(fsOps, "create")
              /\ pc' = "copy"
              /\ UNCHANGED << dlErr, stdout, stderr, exitCode >>
    /\ UNCHANGED << inputs, locals, listing, scanning, candidates, err, enumFailed, rc, apiCalls >>

\* the file after n bytes of the stream were written to it
Written(dir, name, body, n) ==
    [dir EXCEPT ![name].content = SubSeq(body, 1, n)]

\* 3. io.Copy(out, rc): on failure some prefix of the stream has been written
DL_Copy ==
    /\ pc = "copy"
    /\ fsOps' = Append(fsOps, "copy")
    /\ \E failed \in BOOLEAN, n \in 0..Len(rc.content) :
         IF failed
         THEN /\ fs' = Written(fs, candidates[1].AssetName, rc.content, n)
              /\ DownloadFailed("could not write to file")
         ELSE /\ fs' = Written(fs, candidates[1].AssetName, rc.content, Len(rc.content))
              /\ stdout' = Append(stdout, Println("downloaded"))
              /\ pc' = "chmod"
              /\ UNCHANGED << dlErr, stderr, exitCode >>
    /\ UNCHANGED << inputs, locals, listing, scanning, candidates, err, enumFailed, rc, apiCalls >>

\* a chmod that only adds the execute bits of mode to the bits the file has (chmod +x)
ChmodAddExec(dir, name, mode) ==
    [dir EXCEPT ![name].mode = dir[name].mode \cup (mode \cap ExecBits)]

\* os.Chmod(name, 0755)
Chmod(dir, name, mode) == [dir EXCEPT ![name].mode = mode]

\* 4. os.Chmod(c.AssetName, 0755)
DL_Chmod ==
    /\ pc = "chmod"
    /\ \E failed \in BOOLEAN :
         IF failed
         THEN /\ DownloadFailed("could not make file executable")
              /\ UNCHANGED << fs, fsOps >>
         ELSE /\ fs' = Chmod(fs, candidates[1].AssetName, Perm0755)
              /\ fsOps' = Append(fsOps, "chmod")
              /\ stdout' = Append(stdout, Println("made executable"))
              /\ pc' = "done"
              /\ UNCHANGED << dlErr, stderr, exitCode >>
    /\ UNCHANGED << inputs, locals, listing, scanning, candidates, err, enumFailed, rc, apiCalls >>

(* --------------------------- specification ---------------------------- *)

Next ==
    \/ Main_Token
    \/ Main_Platform
    \/ GetUser
    \/ ListPage
    \/ ScanRepo
    \/ ReturnCandidates
    \/ Main_Switch
    \/ DL_Open
    \/ DL_Create
    \/ DL_Copy
    \/ DL_Chmod

Spec == Init /\ [][Next]_vars

\* main over every token and platform input, no arguments, an empty directory
MainInit ==
    InitWith(TokenFlags, EnvTokens, BOOLEAN, {<<>>}, HostOS, HostArch, {EmptyDir})
MainSpec == MainInit /\ [][Next]_vars

\* the Finder on the supported platforms: private mode over every argument
\* list, public mode without arguments
FinderInit ==
    \/ InitWith({"flagtok"}, {""}, {FALSE}, ArgLists, {linux}, {amd64, arm64}, {EmptyDir})
    \/ InitWith({"flagtok"}, {""}, {TRUE}, {<<>>}, {linux}, {amd64}, {EmptyDir})
FinderSpec == FinderInit /\ [][Next]_vars
FinderFairSpec == FinderSpec /\ WF_vars(Next)

\* the Fetcher over every initial working directory
FetchInit ==
    InitWith({"flagtok"}, {""}, BOOLEAN, {<<>>}, {linux}, {amd64}, InitialDirs)
FetchSpec == FetchInit /\ [][Next]_vars

(* ------------------------------- claims ------------------------------- *)

TokenMissingLine ==
    Println("GitHub token not found. Provide one via -token flag or GH_TOKEN env var.")
NoMatchLine == Println("No matching release artifacts found for your platform.")
DownloadInvoked == "Repositories.DownloadReleaseAsset" \in apiCalls
\* findReleaseCandidates was called and has returned
FinderReturned ==
    /\ pc \in {"returned", "open", "create", "copy", "chmod", "done"}
    /\ apiCalls \cap {"Users.Get", "Repositories.List", "Repositories.ListByUser"} # {}
FileWritten == fs # fs0 \/ fsOps # <<>>
\* the host OS is not linux, or the architecture is neither amd64 nor arm64
HostUnsupported == GOOS # linux \/ GOARCH \notin {amd64, arm64}

\* C1: downloadAndPrepare is invoked, and a file created or truncated, only
\* after findReleaseCandidates returned no error and exactly one candidate (so
\* with a token and on a supported platform); with zero candidates the run
\* prints the no-match message and writes no file; with two or more it writes
\* no file.
C1_DownloadOnlyForOneCandidate ==
    /\ (DownloadInvoked \/ FileWritten) =>
          /\ FinderReturned
          /\ err = NoErr
          /\ Len(candidates) = 1
          /\ token # ""
          /\ ~HostUnsupported
    /\ (pc = "done" /\ FinderReturned /\ err = NoErr /\ Len(candidates) = 0) =>
          /\ stdout = <<NoMatchLine>>
          /\ ~FileWritten
    /\ (Len(candidates) # 1 \/ err # NoErr \/ token = "" \/ HostUnsupported) =>
          /\ ~DownloadInvoked
          /\ ~FileWritten

C1_Witness ==
    /\ pc = "done"
    /\ Len(candidates) = 1
    /\ DownloadInvoked
    /\ fsOps = <<"create", "copy", "chmod">>

\* C4: the token is the -token flag value if that is not empty, otherwise
\* GH_TOKEN if that is not empty, otherwise staticToken; when all three are
\* empty the run prints the token message and ends with no API call and no
\* file written.
C4_TokenPrecedence ==
    pc # "start" =>
       /\ tokenFlag # "" => token = tokenFlag
       /\ (tokenFlag = "" /\ envToken # "") => token = envToken
       /\ (tokenFlag = "" /\ envToken = "") => token = staticToken
       /\ (tokenFlag = "" /\ envToken = "" /\ staticToken = "") =>
             /\ pc = "done"
             /\ stdout = <<TokenMissingLine>>
             /\ stderr = <<>>
             /\ apiCalls = {}
             /\ ~FileWritten

C4_Witness ==
    /\ tokenFlag # ""
    /\ envToken # ""
    /\ tokenFlag # envToken
    /\ token = tokenFlag
    /\ apiCalls # {}

PlatformErrorLine ==
    [text |-> "This program is designed to run only on linux/amd64 or linux/arm64. Detected: %s/%s",
     err |-> NoErr]

\* C5 as stated: on an unsupported platform the run prints the platform error
\* and exits nonzero without contacting the API, whatever the token inputs.
C5_Original ==
    HostUnsupported =>
       /\ apiCalls = {}
       /\ pc = "done" => (exitCode # 0 /\ stderr = <<PlatformErrorLine>>)

\* C5 (amended): on an unsupported platform the run never contacts the API and
\* writes no file; when a token is resolved it prints the platform error and
\* exits with status 1; when no token is resolved it prints the token message
\* and ends with status 0, the platform not being examined.
C5_PlatformGate ==
    HostUnsupported =>
       /\ apiCalls = {}
       /\ ~FileWritten
       /\ pc \in {"start", "platform", "done"}
       /\ pc = "done" =>
            IF token # ""
            THEN exitCode = 1 /\ stderr = <<PlatformErrorLine>> /\ stdout = <<>>
            ELSE exitCode = 0 /\ stderr = <<>> /\ stdout = <<TokenMissingLine>>

C5_Witness ==
    /\ pc = "done"
    /\ HostUnsupported
    /\ token # ""
    /\ exitCode = 1

(* the Finder *)

\* the asset test as the claims state it
Qualifies(name) ==
    /\ Contains(ToLower(name), platformOS)
    /\ Contains(ToLower(name), platformArch)
QualifyingAt(rel) == {k \in 1..Len(rel.assets) : Qualifies(rel.assets[k].name)}
FirstOf(S) == CHOOSE k \in S : \A j \in S : k <= j
CandidateOf(repo, asset) ==
    [RepoOwner |-> repo.owner, RepoName |-> repo.name, AssetName |-> asset.name,
     DownloadURL |-> asset.url, AssetID |-> asset.id]
\* the candidates after repo was scanned with release rel: the first qualifying
\* asset appended, or nothing
ExpectedCandidates(cands, repo, rel) ==
    IF QualifyingAt(rel) = {} THEN cands
    ELSE Append(cands, CandidateOf(repo, rel.assets[FirstOf(QualifyingAt(rel))]))
\* the repository's name contains the pattern, case-insensitively
NameMatches(repo) == repoPattern = <<>> \/ Contains(ToLower(repo.name), repoPattern)
\* a step of the scan loop over a repository that passes the name filter
ScansMatchingRepo == pc = "scan" /\ idx <= Len(repos) /\ idx' = idx + 1 /\ NameMatches(repos[idx])

\* C2: a repository that passes the name filter and resolves to a release adds
\* at most one candidate: the first asset in listed order whose lowercased name
\* contains the OS and the architecture string, and none when no asset does.
C2_FirstQualifyingAsset ==
    [][ ScansMatchingRepo =>
          LET rel == Resolve(lookup', versionPattern)
          IN  ~rel.nil => candidates' = ExpectedCandidates(candidates, repos[idx], rel) ]_vars

C2_Witness ==
    /\ pc = "scan"
    /\ idx > 1
    /\ NameMatches(repos[idx - 1])
    /\ lookup.kind = "latest"
    /\ ~lookup.err
    /\ Cardinality(QualifyingAt(lookup.latest)) >= 2
    /\ candidates # <<>>
    /\ candidates[Len(candidates)] = CandidateOf(repos[idx - 1], lookup.latest.assets[1])

Range(f) == {f[i] : i \in DOMAIN f}
MatchingRepos == {i \in 1..Len(repos) : NameMatches(repos[i])}

\* C3: when a single repository matches and its release has several artifacts
\* for the platform, the tool lists those artifacts and downloads none.
C3_ListsSeveralArtifacts ==
    [][ ( /\ pc = "returned"
          /\ err = NoErr
          /\ Cardinality(MatchingRepos) = 1
          /\ lookup.kind # "none"
          /\ ~Resolve(lookup, versionPattern).nil
          /\ Cardinality(QualifyingAt(Resolve(lookup, versionPattern))) >= 2 ) =>
        LET repo == repos[FirstOf(MatchingRepos)]
            rel == Resolve(lookup, versionPattern)
        IN  /\ pc' = "done"
            /\ \A k \in QualifyingAt(rel) :
                  StatusLine(CandidateOf(repo, rel.assets[k])) \in Range(stdout') ]_vars

\* the releases of every page of a listing, in listing order
AllReleases(l) == l.first \o l.rest
TagMatching(rels) == {k \in 1..Len(rels) : Contains(ToLower(rels[k].tag), versionPattern)}

\* C7: with a version pattern, the release used for a repository is the first,
\* over every page of its release listing, whose lowercased tag contains the
\* pattern, and the repository is skipped only if no release matches; with no
\* version pattern the latest release is used.
C7_FirstMatchingReleaseOfAllPages ==
    [][ ScansMatchingRepo =>
          IF versionPattern = <<>>
          THEN /\ lookup'.kind = "latest"
               /\ ~lookup'.err =>
                    candidates' = ExpectedCandidates(candidates, repos[idx], lookup'.latest)
          ELSE /\ lookup'.kind = "list"
               /\ ~lookup'.err =>
                    LET all == AllReleases(lookup'.listing)
                    IN  IF TagMatching(all) = {} THEN candidates' = candidates
                        ELSE candidates' =
                               ExpectedCandidates(candidates, repos[idx],
                                                  all[FirstOf(TagMatching(all))]) ]_vars

\* a release lookup that failed leaves the candidates as they were, and the
\* scan goes on
LookupFailureSkipsRepo ==
    (ScansMatchingRepo /\ lookup'.err) =>
        /\ candidates' = candidates
        /\ pc' = "scan"
        /\ err' = NoErr

\* findReleaseCandidates returns an error exactly when an enumeration call
\* failed, then with no candidates; main then exits nonzero, prints no
\* candidate and downloads nothing
ErrorIffEnumerationFailed ==
    /\ (err # NoErr) <=> enumFailed
    /\ err # NoErr =>
         /\ candidates = <<>>
         /\ stdout = <<>>
         /\ ~DownloadInvoked
         /\ ~FileWritten
         /\ pc \in {"returned", "done"}
         /\ pc = "done" => exitCode # 0

\* C8: findReleaseCandidates returns an error if and only if a repository
\* enumeration call fails (Users.Get, or a page of the listing), and then no
\* candidates, and main exits nonzero without printing a candidate or
\* downloading; a failed release lookup never fails the run: the repository
\* adds no candidate and the scan continues.
C8_OnlyEnumerationErrorsFail ==
    /\ []ErrorIffEnumerationFailed
    /\ [][LookupFailureSkipsRepo]_vars

\* a candidate of a later repository, found after the lookup of an earlier one failed
C8_Witness ==
    /\ pc = "scan"
    /\ idx > 2
    /\ lookupFailed
    /\ ~lookup.err
    /\ NameMatches(repos[idx - 1])
    /\ err = NoErr
    /\ candidates # <<>>
    /\ candidates[Len(candidates)].RepoName = repos[idx - 1].name

RECURSIVE Flatten(_)
Flatten(responses) ==
    IF responses = <<>> THEN <<>>
    ELSE Head(responses).repos \o Flatten(Tail(responses))

\* the candidates come from the repositories rs, in their order
RECURSIVE InRepoOrder(_, _)
InRepoOrder(cands, rs) ==
    IF cands = <<>> THEN TRUE
    ELSE IF rs = <<>> THEN FALSE
    ELSE IF Head(cands).RepoName = Head(rs).name /\ Head(cands).RepoOwner = Head(rs).owner
         THEN InRepoOrder(Tail(cands), Tail(rs))
         ELSE InRepoOrder(cands, Tail(rs))

PaginationFollowsNextPage ==
    /\ pagesRequested # <<>> => pagesRequested[1] = 0
    /\ \A i \in 2..Len(pagesRequested) :
          /\ served[i - 1].NextPage # 0
          /\ pagesRequested[i] = served[i - 1].NextPage
    /\ (pc = "list" /\ served # <<>>) => served[Len(served)].NextPage # 0
    /\ pc = "scan" =>
          /\ served # <<>>
          /\ Len(pagesRequested) = Len(served)
          /\ served[Len(served)].NextPage = 0
          /\ repos = Flatten(served)
          /\ InRepoOrder(candidates, SubSeq(repos, 1, idx - 1))
    /\ (pc = "returned" /\ err = NoErr) =>
          /\ idx = Len(repos) + 1
          /\ InRepoOrder(candidates, repos)
    /\ (pc = "done" /\ err = NoErr /\ Len(candidates) >= 2) =>
          stdout = [i \in 1..Len(candidates) |-> StatusLine(candidates[i])]

\* C9: the listing loop requests page after page, each the NextPage of the
\* response before, and stops exactly at a response with no further page; every
\* repository of every page is scanned; the candidates are in enumeration
\* order, and so are the lines printed for two or more; the loop terminates.
C9_PaginationAndOrder ==
    /\ []PaginationFollowsNextPage
    /\ (pc = "list") ~> (pc # "list")

C9_Witness ==
    /\ pc = "scan"
    /\ idx > Len(repos)
    /\ Len(served) >= 2
    /\ \A i \in 1..Len(served) : served[i].repos # <<>>
    /\ Len(candidates) >= 2
    /\ candidates[1].RepoName # candidates[2].RepoName

(* the Fetcher *)

Target == candidates[1].AssetName
DownloadedLine == Println("downloaded")
ExecutableLine == Println("made executable")
IsPrefix(p, q) == Len(p) <= Len(q) /\ p = SubSeq(q, 1, Len(p))
OthersUntouched == \A n \in FileNames : n # Target => fs[n] = fs0[n]

\* C6: with one candidate and every step succeeding, at the end a file named
\* as the asset exists, holds the whole stream and has mode 0755; the steps run
\* in the order open, create, copy, chmod; the status line is printed before
\* the download starts, "downloaded" only after the copy succeeded and "made
\* executable" only after the chmod succeeded.
C6_SuccessfulFetch ==
    /\ \E k \in 0..3 : fsOps = SubSeq(<<"create", "copy", "chmod">>, 1, k)
    /\ fsOps # <<>> => (DownloadInvoked /\ rc.open)
    /\ DownloadInvoked =>
          /\ stdout # <<>>
          /\ stdout[1] = StatusLine(candidates[1])
    /\ DownloadedLine \in Range(stdout) =>
          /\ Len(fsOps) >= 2
          /\ fs[Target].content = rc.content
          /\ dlErr # "could not write to file"
    /\ ExecutableLine \in Range(stdout) =>
          /\ fsOps = <<"create", "copy", "chmod">>
          /\ fs[Target].mode = Perm0755
    /\ (pc = "done" /\ DownloadInvoked /\ dlErr = NoErr) =>
          /\ fsOps = <<"create", "copy", "chmod">>
          /\ fs[Target].exists
          /\ fs[Target].content = rc.content
          /\ fs[Target].mode = Perm0755
          /\ OthersUntouched
          /\ stdout = <<StatusLine(candidates[1]), DownloadedLine, ExecutableLine>>
          /\ exitCode = 0

C6_Witness ==
    /\ pc = "done"
    /\ DownloadInvoked
    /\ dlErr = NoErr
    /\ Len(rc.content) = 2
    /\ fs[Target] = File(rc.content, Perm0755)
    /\ fs0[Target].exists

\* C10 as stated: a failing step aborts the later ones; a failure before the
\* file is created leaves the file system unchanged; a failure of the copy or
\* of the chmod leaves the file on disk, partially written and non-executable,
\* whatever the working directory held before.
C10_Original ==
    dlErr # NoErr =>
       /\ pc = "done"
       /\ dlErr = "could not download asset content" => (fs = fs0 /\ fsOps = <<>>)
       /\ dlErr \in {"could not write to file", "could not make file executable"} =>
            /\ fs[Target].exists
            /\ IsPrefix(fs[Target].content, rc.content)
            /\ fs[Target].mode \cap ExecBits = {}

\* C10 (amended): a failing step aborts the later ones and the error names it;
\* a failure of the stream open or of the file creation leaves the file system
\* unchanged; a failure of the copy leaves the file on disk holding a prefix of
\* the stream, and a failure of the chmod leaves it holding the whole stream;
\* in both cases the file keeps the mode os.Create gave it: the mode of the
\* file of that name that existed before, execute bits included, or 0666 less
\* the umask (non-executable) when there was none.
C10_FailureLeavesFile ==
    dlErr # NoErr =>
       /\ pc = "done"
       /\ exitCode = 1
       /\ ExecutableLine \notin Range(stdout)
       /\ OthersUntouched
       /\ dlErr = "could not download asset content" =>
            (fs = fs0 /\ fsOps = <<>> /\ ~rc.open)
       /\ dlErr = "could not create file" => (fs = fs0 /\ fsOps = <<>>)
       /\ dlErr \in {"could not write to file", "could not make file executable"} =>
            /\ fsOps = <<"create", "copy">>
            /\ fs[Target].exists
            /\ IF dlErr = "could not write to file"
               THEN IsPrefix(fs[Target].content, rc.content) /\ DownloadedLine \notin Range(stdout)
               ELSE fs[Target].content = rc.content
            /\ IF fs0[Target].exists
               THEN fs[Target].mode = fs0[Target].mode
               ELSE \E umask \in Umasks : fs[Target].mode = Perm0666 \ umask
            /\ (fs[Target].mode \cap ExecBits = {}) <=>
                  ~(fs0[Target].exists /\ fs0[Target].mode \cap ExecBits # {})

\* a copy that failed over a file that existed before with execute bits
C10_Witness ==
    /\ dlErr = "could not write to file"
    /\ fs0[Target].exists
    /\ fs[Target].exists
    /\ fs[Target].mode \cap ExecBits # {}
    /\ Len(fs[Target].content) < Len(rc.content)

====
